---- MODULE Spec2Model ----
(***************************************************************************)
(* Model of xcp's copy pipeline (src/operations.rs): tree_walker,         *)
(* copy_worker and copy_tree as three threads joined by two mpsc          *)
(* channels, and copy_single_file / copy_file as a sequential program.    *)
(* Paths are sequences of names; the filesystem is a function from the    *)
(* paths of a small universe to nodes.                                     *)
(***************************************************************************)
EXTENDS Integers, Sequences, FiniteSets, TLC

\* ------------------------------------------------------------------ bounds
\* how many system calls may fail for environmental reasons in one run
MaxFaults == 1
\* the length of the source file of the single-file path ranges over 0..MaxLen
MaxLen == 3

\* --------------------------------------------------------- scaled constants
\* BATCH_DEFAULT (imported at operations.rs:16), scaled down to the model's files
BATCH_DEFAULT == 2
\* usize::max_value() as u64 (operations.rs:193, 261), scaled to TLC's integers
USIZE_MAX == 2147483647
\* the metadata length of a directory entry (operations.rs:74, 172)
DirLen == 1

\* -------------------------------------------------------------------- paths
SrcRoot == <<"s">>
Dest == <<"d">>
Names == <<"a", "b", "c">>
NoPath == <<"?">>

\* relative paths an entry of the source tree may have
Rels == {<<>>, <<"a">>, <<"a", "b">>, <<"c">>}

Paths ==
  {SrcRoot \o r : r \in Rels} \cup {Dest \o r : r \in Rels}
    \cup {Dest \o SrcRoot \o r : r \in Rels}

Parent(p) == SubSeq(p, 1, Len(p) - 1)

IsPrefix(p, q) == Len(p) <= Len(q) /\ SubSeq(q, 1, Len(p)) = p

\* -------------------------------------------------------------------- nodes
Absent == [kind |-> "None", content |-> <<>>, perm |-> 0, link |-> <<>>]
DirNode == [kind |-> "Dir", content |-> <<>>, perm |-> 7, link |-> <<>>]
FileNode(c, m) == [kind |-> "File", content |-> c, perm |-> m, link |-> <<>>]
LinkNode(t) == [kind |-> "Symlink", content |-> <<>>, perm |-> 7, link |-> t]
OtherNode == [kind |-> "Other", content |-> <<>>, perm |-> 6, link |-> <<>>]

\* the content and permission bits of the source file at relative path r
SrcContent(r) ==
  IF r = <<"a">> THEN <<1, 2>> ELSE IF r = <<"a", "b">> THEN <<4>> ELSE <<>>

SrcPerm(r) == IF r = <<"a">> THEN 5 ELSE 4

\* raw target text of the source symlink at relative path r
SrcLink(r) == <<"t">> \o r

SrcNode(k, r) ==
  CASE k = "Dir" -> DirNode
    [] k = "File" -> FileNode(SrcContent(r), SrcPerm(r))
    [] k = "Symlink" -> LinkNode(SrcLink(r))
    [] k = "Other" -> OtherNode
    [] OTHER -> Absent

\* ------------------------------------------------- filesystem predicates
\* Path::exists / is_dir / is_file follow symlinks; the symlinks of the model
\* carry target texts outside the universe, so a symlink node resolves to nothing.
KindAt(f, p) == IF p = <<>> THEN "Dir" ELSE IF p \in Paths THEN f[p].kind ELSE "None"

Exists(f, p) == KindAt(f, p) \in {"Dir", "File", "Other"}

IsDir(f, p) == KindAt(f, p) = "Dir"

IsFile(f, p) == KindAt(f, p) = "File"

\* std::fs::create_dir_all: Ok if p is a directory already; otherwise create the
\* missing ancestors first, then p; an existing non-directory component is an error
RECURSIVE CreateDirAll(_, _)
CreateDirAll(f, p) ==
  IF IsDir(f, p) THEN [ok |-> TRUE, fs |-> f]
  ELSE IF KindAt(f, p) # "None" \/ p \notin Paths THEN [ok |-> FALSE, fs |-> f]
  ELSE LET r == CreateDirAll(f, Parent(p))
       IN IF r.ok THEN [ok |-> TRUE, fs |-> [r.fs EXCEPT ![p] = DirNode]]
          ELSE [ok |-> FALSE, fs |-> f]

\* File::create: O_CREAT | O_TRUNC | O_WRONLY. A regular file is truncated, a
\* missing file is created in an existing directory, a special file is opened
FileCreate(f, p) ==
  IF p \notin Paths \/ ~IsDir(f, Parent(p)) THEN [ok |-> FALSE, fs |-> f]
  ELSE CASE f[p].kind = "None" -> [ok |-> TRUE, fs |-> [f EXCEPT ![p] = FileNode(<<>>, 6)]]
         [] f[p].kind = "File" -> [ok |-> TRUE, fs |-> [f EXCEPT ![p].content = <<>>]]
         [] f[p].kind = "Other" -> [ok |-> TRUE, fs |-> f]
         [] OTHER -> [ok |-> FALSE, fs |-> f]

\* std::os::unix::fs::symlink(text, p): fails if p exists in any form
Symlink(f, t, p) ==
  IF p \in Paths /\ IsDir(f, Parent(p)) /\ f[p].kind = "None"
  THEN [ok |-> TRUE, fs |-> [f EXCEPT ![p] = LinkNode(t)]]
  ELSE [ok |-> FALSE, fs |-> f]


\* ------------------------------------------------------------ error values
NoErr == [type |-> "None", kind |-> "None", path |-> NoPath]
XcpErr(t, p) == [type |-> t, kind |-> "None", path |-> p]
\* errors::io_err(kind, desc): a std::io::Error of the kind, no path attached
io_err(k) == [type |-> "Io", kind |-> k, path |-> NoPath]
SendErr == [type |-> "Send", kind |-> "None", path |-> NoPath]
\* results: a stage or call still running, Ok(()), or Err(e) with e as above
Running == [type |-> "Running", kind |-> "None", path |-> NoPath]
OkRes == [type |-> "Ok", kind |-> "None", path |-> NoPath]
IsErr(r) == r.type \notin {"Running", "Ok"}

\* -------------------------------------------------------------- operations
Copy(from, to) == [op |-> "Copy", from |-> from, to |-> to]
Link(from, to) == [op |-> "Link", from |-> from, to |-> to]
CreateDir(to) == [op |-> "CreateDir", from |-> <<>>, to |-> to]
End == [op |-> "End", from |-> <<>>, to |-> <<>>]
NoOp == [op |-> "None", from |-> <<>>, to |-> <<>>]

\* ------------------------------------------------------------------- state
VARIABLES
  mode,        \* "tree" (copy_tree) or "file" (copy_single_file)
  opts,        \* Opts: noclobber, noprogress, gitignore (dest is Dest)
  fs,          \* the filesystem
  fs0,         \* the filesystem before the call (history)
  ignored,     \* the relative paths the Gitignore matcher matches
  order,       \* the order in which read_dir yields the names of a directory
  work,        \* the Work Queue (mpsc channel of Operation)
  work_rx,     \* the Receiver<Operation> has not been dropped
  work_tx,     \* the Sender<Operation> has not been dropped
  stat,        \* the Stats Channel (mpsc channel of Result<StatusUpdate>)
  stat_rx,     \* the Receiver of the Stats Channel has not been dropped
  stat_tx,     \* the stages that still hold a Sender of the Stats Channel
  wpc,         \* tree_walker: position
  widx,        \* tree_walker: entries the WalkDir iterator has yielded
  target_base, \* tree_walker: the destination base
  wcur,        \* tree_walker: from, target, kind and link text of the entry
  wres,        \* tree_walker: its result
  kpc,         \* copy_worker / copy_file: position
  kop,         \* copy_worker: the Operation being executed
  cf,          \* copy_file: from, to, len, perm, written, result
  kres,        \* copy_worker: its result
  apc,         \* copy_tree / copy_single_file: position of the calling thread
  copied,      \* copy_tree: running Copied total
  total,       \* copy_tree: running Size total
  ares,        \* the result returned to the caller
  emitted,     \* history: every Operation sent on the Work Queue, in order
  executed,    \* history: every Operation the Executor dequeued and ran
  sizes,       \* history: statistics and errors tree_walker sent
  failed,      \* history: the system calls that failed, by stage
  statlog,     \* history: every result handed to a sink, in order, with its entry
  returns,     \* history: what each call of copy_file returned
  faults       \* environmental failures injected so far

vars ==
  <<mode, opts, fs, fs0, ignored, order, work, work_rx, work_tx, stat, stat_rx,
    stat_tx, wpc, widx, target_base, wcur, wres, kpc, kop, cf, kres, apc,
    copied, total, ares, emitted, executed, sizes, failed, statlog, returns,
    faults>>

envVars == <<mode, opts, fs0, ignored, order>>
walkVars == <<wpc, widx, target_base, wcur, wres>>
workerVars == <<kpc, kop, cf, kres>>
aggVars == <<apc, copied, total, ares>>

\* ------------------------------------------------------------ the traversal
\* a filter that lets every entry pass
ignore_nothing(rel, gi) == TRUE

\* ignore_filter: with no matcher every entry passes; otherwise the entry passes
\* unless the matcher matches its path
ignore_filter(rel, gi) == IF ~gi.some THEN TRUE ELSE rel \notin gi.pats

RECURSIVE WalkKids(_, _, _, _, _)
RECURSIVE WalkFrom(_, _, _, _)
\* a walk that yields the contents of a directory before the directory
WalkFromContentsFirst(f, gi, ord, rel) ==
  IF (SrcRoot \o rel) \notin Paths \/ f[SrcRoot \o rel].kind = "None" THEN <<>>
  ELSE IF ~ignore_filter(rel, gi) THEN <<>>
  ELSE (IF f[SrcRoot \o rel].kind = "Dir"
        THEN WalkKids(f, gi, ord, rel, 1) ELSE <<>>) \o <<rel>>

\* WalkDir::new(source).into_iter().filter_entry(..): pre-order, parents first;
\* an entry the filter rejects is skipped together with its descendants;
\* symlinks are not followed
WalkFrom(f, gi, ord, rel) ==
  IF (SrcRoot \o rel) \notin Paths \/ f[SrcRoot \o rel].kind = "None" THEN <<>>
  ELSE IF ~ignore_filter(rel, gi) THEN <<>>
  ELSE <<rel>> \o (IF f[SrcRoot \o rel].kind = "Dir"
                   THEN WalkKids(f, gi, ord, rel, 1) ELSE <<>>)

WalkKids(f, gi, ord, rel, i) ==
  IF i > Len(ord) THEN <<>>
  ELSE WalkFrom(f, gi, ord, rel \o <<ord[i]>>) \o WalkKids(f, gi, ord, rel, i + 1)

Gitignore == [some |-> opts.gitignore, pats |-> ignored]

Walk == WalkFrom(fs, Gitignore, order, <<>>)

\* ---------------------------------------------------------- initial states
SourceTrees ==
  { [p \in Paths |->
       IF p = SrcRoot THEN DirNode
       ELSE IF p = SrcRoot \o <<"a">> THEN SrcNode(ka, <<"a">>)
       ELSE IF p = SrcRoot \o <<"a", "b">> THEN SrcNode(kb, <<"a", "b">>)
       ELSE IF p = SrcRoot \o <<"c">> THEN SrcNode(kc, <<"c">>)
       ELSE Absent] :
    <<ka, kb, kc>> \in
      { t \in {"None", "Dir", "File", "Other"}
              \X {"None", "File", "Dir"}
              \X {"None", "File", "Symlink"} :
          t[2] # "None" => t[1] = "Dir" } }

\* the destination before the call: missing, an empty directory, a directory
\* that holds a directory named after the source (empty, or with a file in it),
\* or a regular file
DestStates ==
  { [p \in Paths |-> Absent],
    [p \in Paths |-> IF p = Dest THEN DirNode ELSE Absent],
    [p \in Paths |-> IF p \in {Dest, Dest \o SrcRoot} THEN DirNode ELSE Absent],
    [p \in Paths |-> IF p \in {Dest, Dest \o SrcRoot} THEN DirNode
                     ELSE IF p = Dest \o SrcRoot \o <<"a">> THEN FileNode(<<9>>, 6)
                     ELSE Absent],
    [p \in Paths |-> IF p = Dest THEN FileNode(<<9>>, 6) ELSE Absent] }

Overlay(src, dst) == [p \in Paths |-> IF IsPrefix(SrcRoot, p) THEN src[p] ELSE dst[p]]

NoEntry == [from |-> <<>>, target |-> <<>>, kind |-> "None", len |-> 0, link |-> <<>>]
NoCf ==
  [from |-> <<>>, to |-> <<>>, len |-> 0, perm |-> 0, written |-> 0, req |-> 0,
   result |-> 0]
NoFail ==
  [walk |-> FALSE, mkdir |-> FALSE, copy |-> FALSE, link |-> FALSE, ignore |-> FALSE]

Init ==
  /\ mode = "tree"
  /\ opts \in [noclobber : BOOLEAN, noprogress : BOOLEAN, gitignore : BOOLEAN]
  /\ \E src \in SourceTrees, dst \in DestStates : fs = Overlay(src, dst)
  /\ fs0 = fs
  /\ ignored \in IF opts.gitignore THEN {{<<"a">>}, {<<"c">>}} ELSE {{}}
  /\ order \in {Names, <<"c", "b", "a">>}
  /\ (fs[SrcRoot \o <<"a">>].kind = "None" \/ fs[SrcRoot \o <<"c">>].kind = "None")
       => order = Names
  /\ work = <<>> /\ work_rx = TRUE /\ work_tx = TRUE
  /\ stat = <<>> /\ stat_rx = TRUE /\ stat_tx = {"walk", "copy"}
  /\ wpc = "start" /\ widx = 0 /\ target_base = <<>> /\ wcur = NoEntry
  /\ wres = Running
  /\ kpc = "recv" /\ kop = NoOp /\ cf = NoCf /\ kres = Running
  /\ apc = "recv" /\ copied = 0 /\ total = 0 /\ ares = Running
  /\ emitted = <<>> /\ executed = <<>> /\ sizes = <<>>
  /\ statlog = <<>> /\ returns = <<>>
  /\ failed = NoFail /\ faults = 0


\* ------------------------------------------------------------ the channels
Size(n) == [ok |-> TRUE, stat |-> "Size", n |-> n, err |-> NoErr]
Copied(n) == [ok |-> TRUE, stat |-> "Copied", n |-> n, err |-> NoErr]
StatErr(e) == [ok |-> FALSE, stat |-> "None", n |-> 0, err |-> e]

\* what a sink was handed: the statistic (or "Err"), the delta, and the
\* destination and kind of the entry it accounts for
Logged(st, n, to, kind) == [stat |-> st, n |-> n, to |-> to, kind |-> kind]

CanFault == faults < MaxFaults

\* ------------------------------------------------------------- tree_walker
TargetBase(f) == IF Exists(f, Dest) THEN Dest \o <<SrcRoot[Len(SrcRoot)]>> ELSE Dest

\* a target that drops the entry's path below the source
TargetOfBase(base, rel) == base

Target(base, rel) == IF rel # <<>> THEN base \o rel ELSE base

\* a traversal that forgets the no-clobber test
NoClobberNever(f, target, o) == FALSE

NoClobberHit(f, target, o) == Exists(f, target) /\ o.noclobber

\* a traversal whose Sender<Operation> outlives the thread function
WalkerExitLeak(res) ==
  /\ wpc' = "done"
  /\ wres' = res
  /\ work_tx' = work_tx
  /\ stat_tx' = stat_tx \ {"walk"}

\* the thread function returns: its Sender<Operation> and its BatchUpdater drop
WalkerExit(res) ==
  /\ wpc' = "done"
  /\ wres' = res
  /\ work_tx' = FALSE
  /\ stat_tx' = stat_tx \ {"walk"}

\* work_tx.send(op)?: queues op, or fails at once when the receiver is gone
WalkerSend(op, nextpc) ==
  IF work_rx
  THEN /\ work' = Append(work, op)
       /\ emitted' = Append(emitted, op)
       /\ wpc' = nextpc
       /\ UNCHANGED <<wres, work_tx, stat_tx>>
  ELSE /\ WalkerExit(SendErr)
       /\ UNCHANGED <<work, emitted>>

\* updates.update(r)? on the traversal's sink: forwards r on the Stats Channel
WalkerUpdate(msg, nextpc) ==
  IF stat_rx
  THEN /\ stat' = Append(stat, msg)
       /\ sizes' = Append(sizes, msg)
       /\ statlog' = Append(statlog, Logged(IF msg.ok THEN msg.stat ELSE "Err", msg.n,
                                            wcur.target, wcur.kind))
       /\ wpc' = nextpc
       /\ UNCHANGED <<wres, work_tx, stat_tx>>
  ELSE /\ WalkerExit(SendErr)
       /\ UNCHANGED <<stat, sizes, statlog>>

\* a `?` of the traversal on a failed call (which: "walk" for the directory walk,
\* metadata and read_link, "ignore" for the ignore matcher)
WalkerFault(which) ==
  /\ CanFault
  /\ faults' = faults + 1
  /\ failed' = [failed EXCEPT ![which] = TRUE]
  /\ WalkerExit(io_err("Other"))

\* lines 111-129: the destination base and the ignore matcher
WalkStart ==
  /\ mode = "tree" /\ wpc = "start"
  /\ \/ /\ target_base' = TargetBase(fs)
        /\ wpc' = "next"
        /\ UNCHANGED <<wres, work_tx, stat_tx, faults, failed>>
     \/ /\ opts.gitignore
        /\ WalkerFault("ignore")
        /\ UNCHANGED target_base
  /\ UNCHANGED <<statlog, returns,
                 envVars, fs, work, work_rx, stat, stat_rx, widx, wcur,
                 workerVars, aggVars, emitted, executed, sizes>>

\* a traversal that decides the destination base again at every entry
EntryOfRebased(rel) ==
  LET from == SrcRoot \o rel
  IN [from |-> from, target |-> Target(TargetBase(fs), rel), kind |-> fs[from].kind,
      len |-> Len(fs[from].content), link |-> fs[from].link]

EntryOf(rel) ==
  LET from == SrcRoot \o rel
  IN [from |-> from, target |-> Target(target_base, rel), kind |-> fs[from].kind,
      len |-> Len(fs[from].content), link |-> fs[from].link]

\* a traversal that sends the Copy of a regular file without announcing its size
DispatchUnannounced(e) ==
  IF NoClobberHit(fs, e.target, opts) THEN "clob_end"
  ELSE CASE e.kind = "File" -> "file_send"
         [] e.kind = "Symlink" -> "link_send"
         [] e.kind = "Dir" -> "dir_send"
         [] OTHER -> "unk_end"

Dispatch(e) ==
  IF NoClobberHit(fs, e.target, opts) THEN "clob_end"
  ELSE CASE e.kind = "File" -> "file_size"
         [] e.kind = "Symlink" -> "link_send"
         [] e.kind = "Dir" -> "dir_send"
         [] OTHER -> "unk_end"

\* lines 131-156: the next entry, its metadata, its target, the no-clobber test
WalkNext ==
  /\ mode = "tree" /\ wpc = "next"
  /\ \/ /\ widx = Len(Walk)
        /\ wpc' = "end"
        /\ UNCHANGED <<widx, wcur, wres, work_tx, stat_tx, faults, failed>>
     \/ /\ widx < Len(Walk)
        /\ widx' = widx + 1
        /\ wcur' = EntryOf(Walk[widx + 1])
        /\ wpc' = Dispatch(EntryOf(Walk[widx + 1]))
        /\ UNCHANGED <<wres, work_tx, stat_tx, faults, failed>>
     \/ /\ widx < Len(Walk)
        /\ WalkerFault("walk")
        /\ UNCHANGED <<widx, wcur>>
  /\ UNCHANGED <<statlog, returns,
                 envVars, fs, work, work_rx, stat, stat_rx, target_base,
                 workerVars, aggVars, emitted, executed, sizes>>

\* lines 146, 160, 166, 171, 177, 183: the sends on the Work Queue
WalkSend ==
  /\ mode = "tree"
  /\ \/ /\ wpc = "clob_end" /\ WalkerSend(End, "clob_err")
        /\ UNCHANGED <<faults, failed>>
     \/ /\ wpc = "file_send" /\ WalkerSend(Copy(wcur.from, wcur.target), "next")
        /\ UNCHANGED <<faults, failed>>
     \/ /\ wpc = "link_send"
        /\ \/ /\ WalkerSend(Link(wcur.link, wcur.target), "next")
              /\ UNCHANGED <<faults, failed>>
           \/ /\ WalkerFault("walk")
              /\ UNCHANGED <<work, emitted>>
     \/ /\ wpc = "dir_send" /\ WalkerSend(CreateDir(wcur.target), "dir_size")
        /\ UNCHANGED <<faults, failed>>
     \/ /\ wpc = "unk_end" /\ WalkerSend(End, "unk_err")
        /\ UNCHANGED <<faults, failed>>
     \/ /\ wpc = "end" /\ WalkerSend(End, "fin")
        /\ UNCHANGED <<faults, failed>>
  /\ UNCHANGED <<statlog, returns,
                 envVars, fs, work_rx, stat, stat_rx, widx, target_base, wcur,
                 workerVars, aggVars, executed, sizes>>

\* lines 147, 159, 172, 178: the statistics and errors sent by the traversal
WalkUpdate ==
  /\ mode = "tree"
  /\ \/ /\ wpc = "clob_err"
        /\ WalkerUpdate(StatErr(XcpErr("DestinationExists", wcur.target)), "clob_ret")
        /\ UNCHANGED <<faults, failed>>
     \/ /\ wpc = "file_size" /\ WalkerUpdate(Size(wcur.len), "file_send")
        /\ UNCHANGED <<faults, failed>>
     \/ /\ wpc = "dir_size"
        /\ \/ /\ WalkerUpdate(Size(DirLen), "next")
              /\ UNCHANGED <<faults, failed>>
           \/ /\ WalkerFault("walk")
              /\ UNCHANGED <<stat, sizes, statlog>>
     \/ /\ wpc = "unk_err"
        /\ WalkerUpdate(StatErr(XcpErr("UnknownFiletype", wcur.target)), "next")
        /\ UNCHANGED <<faults, failed>>
  /\ UNCHANGED <<returns,
                 envVars, fs, work, work_rx, stat_rx, widx, target_base, wcur,
                 workerVars, aggVars, emitted, executed>>

\* lines 150-153 and 185: the two returns of the thread function
WalkReturn ==
  /\ mode = "tree"
  /\ \/ wpc = "clob_ret" /\ WalkerExit(XcpErr("EarlyShutdown", NoPath))
     \/ wpc = "fin" /\ WalkerExit(OkRes)
  /\ UNCHANGED <<statlog, returns,
                 envVars, fs, work, work_rx, stat, stat_rx, widx, target_base,
                 wcur, workerVars, aggVars, emitted, executed, sizes, failed, faults>>


\* --------------------------------------------------------------- copy_file
Min(a, b) == IF a < b THEN a ELSE b

\* lines 192-196 and 257-273: the batch size of the BatchUpdater
BatchSize(o) == IF o.noprogress THEN USIZE_MAX ELSE BATCH_DEFAULT

\* a request that forgets what has been written already
BytesToCopyFromStart(c, o) == Min(c.len, BatchSize(o))

\* line 41
BytesToCopy(c, o) == Min(c.len - c.written, BatchSize(o))

\* copy_file_bytes(infd, outfd, n) moving k bytes: the next k bytes of the source
\* are appended to a regular destination; a special file keeps nothing
WriteBytes(f, c, k) ==
  IF f[c.to].kind = "File"
  THEN [f EXCEPT ![c.to].content =
          @ \o SubSeq(f[c.from].content, c.written + 1, c.written + k)]
  ELSE f

\* a copy that leaves the destination with the permission bits it was opened with
KeepPermissions(f, c) == f

\* set_permissions(perm) on the open destination
SetPermissions(f, c) == [f EXCEPT ![c.to].perm = c.perm]

\* a worker that leaves its loop when copy_file returns an error
CopyFileReturnStop(r) ==
  IF mode = "tree"
  THEN /\ kpc' = IF IsErr(r) THEN "fin" ELSE "recv"
       /\ failed' = [failed EXCEPT !.copy = @ \/ IsErr(r)]
       /\ returns' = Append(returns, [from |-> cf.from, to |-> cf.to, res |-> r])
       /\ UNCHANGED <<apc, ares>>
  ELSE /\ kpc' = "done"
       /\ apc' = "done"
       /\ ares' = r
       /\ failed' = [failed EXCEPT !.copy = @ \/ IsErr(r)]
       /\ returns' = Append(returns, [from |-> cf.from, to |-> cf.to, res |-> r])

\* copy_file returns r: copy_worker drops it (lines 63) and takes the next
\* Operation; copy_single_file propagates an error and otherwise returns Ok (275-277)
CopyFileReturn(r) ==
  IF mode = "tree"
  THEN /\ kpc' = "recv"
       /\ failed' = [failed EXCEPT !.copy = @ \/ IsErr(r)]
       /\ returns' = Append(returns, [from |-> cf.from, to |-> cf.to, res |-> r])
       /\ UNCHANGED <<apc, ares>>
  ELSE /\ kpc' = "done"
       /\ apc' = "done"
       /\ ares' = r
       /\ failed' = [failed EXCEPT !.copy = @ \/ IsErr(r)]
       /\ returns' = Append(returns, [from |-> cf.from, to |-> cf.to, res |-> r])

\* lines 32-37: open the source, create the destination, read the metadata
CopyFileOpen ==
  /\ kpc = "cf_open"
  /\ \/ /\ IsFile(fs, cf.from) /\ FileCreate(fs, cf.to).ok
        /\ fs' = FileCreate(fs, cf.to).fs
        /\ cf' = [cf EXCEPT !.len = Len(fs[cf.from].content),
                            !.perm = fs[cf.from].perm, !.written = 0]
        /\ kpc' = "cf_loop"
        /\ UNCHANGED <<apc, ares, failed, faults, returns>>
     \/ /\ ~(IsFile(fs, cf.from) /\ FileCreate(fs, cf.to).ok)
        /\ CopyFileReturn(io_err("Other"))
        /\ UNCHANGED <<fs, cf, faults>>
     \/ /\ CanFault /\ faults' = faults + 1
        /\ CopyFileReturn(io_err("Other"))
        /\ UNCHANGED <<fs, cf>>
     \/ /\ CanFault /\ faults' = faults + 1
        /\ IsFile(fs, cf.from) /\ FileCreate(fs, cf.to).ok
        /\ fs' = FileCreate(fs, cf.to).fs
        /\ CopyFileReturn(io_err("Other"))
        /\ UNCHANGED cf
  /\ UNCHANGED <<statlog,
                 envVars, work, work_rx, work_tx, stat, stat_rx, stat_tx,
                 walkVars, kop, kres, copied, total, emitted, executed, sizes>>

\* lines 40-43 and 46-47: one call of the Copy Primitive, or the end of the loop
CopyFileLoop ==
  /\ kpc = "cf_loop"
  /\ \/ /\ cf.written < cf.len
        /\ \E k \in 1..Min(BytesToCopy(cf, opts), cf.len - cf.written) :
             /\ fs' = WriteBytes(fs, cf, k)
             /\ cf' = [cf EXCEPT !.written = @ + k, !.req = BytesToCopy(cf, opts),
                                 !.result = k]
        /\ kpc' = "cf_upd"
        /\ UNCHANGED <<apc, ares, failed, faults, returns>>
     \/ /\ cf.written >= cf.len
        /\ fs' = SetPermissions(fs, cf)
        /\ CopyFileReturn(OkRes)
        /\ UNCHANGED <<cf, faults>>
     \/ /\ CanFault /\ faults' = faults + 1
        /\ CopyFileReturn(io_err("Other"))
        /\ UNCHANGED <<fs, cf>>
  /\ UNCHANGED <<statlog,
                 envVars, work, work_rx, work_tx, stat, stat_rx, stat_tx,
                 walkVars, kop, kres, copied, total, emitted, executed, sizes>>

\* line 44: updates.update(Ok(result))? on the Executor's sink (the Stats Channel
\* in copy_tree; the progress bar or nothing in copy_single_file)
CopyFileUpdate ==
  /\ kpc = "cf_upd"
  /\ \/ /\ mode = "tree" /\ stat_rx
        /\ stat' = Append(stat, Copied(cf.result))
        /\ statlog' = Append(statlog, Logged("Copied", cf.result, cf.to, "File"))
        /\ kpc' = "cf_loop"
        /\ UNCHANGED <<apc, ares, failed, copied, returns>>
     \/ /\ mode = "tree" /\ ~stat_rx
        /\ CopyFileReturn(SendErr)
        /\ UNCHANGED <<stat, copied, statlog>>
     \/ /\ mode = "file"
        /\ copied' = IF opts.noprogress THEN copied ELSE copied + cf.result
        /\ statlog' = Append(statlog, Logged("Copied", cf.result, cf.to, "File"))
        /\ kpc' = "cf_loop"
        /\ UNCHANGED <<apc, ares, failed, stat, returns>>
  /\ UNCHANGED <<envVars, fs, work, work_rx, work_tx, stat_rx, stat_tx, walkVars,
                 kop, cf, kres, total, emitted, executed, sizes, faults>>

\* ------------------------------------------------------------- copy_worker
\* the thread function returns: the Receiver<Operation> and the BatchUpdater drop
WorkerExit(res) ==
  /\ kpc' = "done"
  /\ kres' = res
  /\ work_rx' = FALSE
  /\ stat_tx' = stat_tx \ {"copy"}

\* Receiver::recv on a non-empty channel: the oldest message and the rest
DequeueNewest(q) == [op |-> q[Len(q)], rest |-> SubSeq(q, 1, Len(q) - 1)]

Dequeue(q) == [op |-> Head(q), rest |-> Tail(q)]

WorkerPc(op) ==
  CASE op.op = "Copy" -> "cf_open"
    [] op.op = "Link" -> "link"
    [] op.op = "CreateDir" -> "mkdir"
    [] OTHER -> "fin"

\* lines 53-60 and 77-80: `for op in work`: take the next Operation, or leave the
\* loop when the channel is empty and its sender is gone
WorkerRecv ==
  /\ mode = "tree" /\ kpc = "recv"
  /\ \/ /\ work # <<>>
        /\ LET op == Dequeue(work).op
           IN /\ work' = Dequeue(work).rest
              /\ kop' = op
              /\ kpc' = WorkerPc(op)
              /\ cf' = IF op.op = "Copy" THEN [NoCf EXCEPT !.from = op.from, !.to = op.to]
                       ELSE cf
              /\ executed' = IF op.op = "End" THEN executed ELSE Append(executed, op)
     \/ /\ work = <<>> /\ ~work_tx
        /\ kpc' = "fin"
        /\ UNCHANGED <<work, kop, cf, executed>>
  /\ UNCHANGED <<statlog, returns,
                 envVars, fs, work_rx, work_tx, stat, stat_rx, stat_tx, walkVars,
                 kres, aggVars, emitted, sizes, failed, faults>>

\* lines 66-69: the result of symlink is dropped
WorkerLink ==
  /\ mode = "tree" /\ kpc = "link"
  /\ \/ /\ fs' = Symlink(fs, kop.from, kop.to).fs
        /\ failed' = [failed EXCEPT !.link = @ \/ ~Symlink(fs, kop.from, kop.to).ok]
        /\ UNCHANGED faults
     \/ /\ CanFault /\ faults' = faults + 1
        /\ failed' = [failed EXCEPT !.link = TRUE]
        /\ UNCHANGED fs
  /\ kpc' = "recv"
  /\ UNCHANGED <<statlog, returns,
                 envVars, work, work_rx, work_tx, stat, stat_rx, stat_tx, walkVars,
                 kop, cf, kres, aggVars, emitted, executed, sizes>>

\* line 73: create_dir_all(&dir)?
WorkerMkdir ==
  /\ mode = "tree" /\ kpc = "mkdir"
  /\ \/ /\ CreateDirAll(fs, kop.to).ok
        /\ fs' = CreateDirAll(fs, kop.to).fs
        /\ kpc' = "mkdir_stat"
        /\ UNCHANGED <<kres, work_rx, stat_tx, failed, faults>>
     \/ /\ ~CreateDirAll(fs, kop.to).ok
        /\ failed' = [failed EXCEPT !.mkdir = TRUE]
        /\ WorkerExit(io_err("Other"))
        /\ UNCHANGED <<fs, faults>>
     \/ /\ CanFault /\ faults' = faults + 1
        /\ failed' = [failed EXCEPT !.mkdir = TRUE]
        /\ WorkerExit(io_err("Other"))
        /\ UNCHANGED fs
  /\ UNCHANGED <<statlog, returns,
                 envVars, work, work_tx, stat, stat_rx, walkVars, kop, cf,
                 aggVars, emitted, executed, sizes>>

\* line 74: updates.update(Ok(dir.metadata()?.len()))?
WorkerMkdirStat ==
  /\ mode = "tree" /\ kpc = "mkdir_stat"
  /\ \/ /\ stat_rx
        /\ stat' = Append(stat, Copied(DirLen))
        /\ statlog' = Append(statlog, Logged("Copied", DirLen, kop.to, "Dir"))
        /\ kpc' = "recv"
        /\ UNCHANGED <<kres, work_rx, stat_tx, failed, faults>>
     \/ /\ ~stat_rx
        /\ WorkerExit(SendErr)
        /\ UNCHANGED <<stat, statlog, failed, faults>>
     \/ /\ CanFault /\ faults' = faults + 1
        /\ failed' = [failed EXCEPT !.mkdir = TRUE]
        /\ WorkerExit(io_err("Other"))
        /\ UNCHANGED <<stat, statlog>>
  /\ UNCHANGED <<returns,
                 envVars, fs, work, work_tx, stat_rx, walkVars, kop, cf,
                 aggVars, emitted, executed, sizes>>

\* lines 83-84
WorkerReturn ==
  /\ mode = "tree" /\ kpc = "fin"
  /\ WorkerExit(OkRes)
  /\ UNCHANGED <<statlog, returns,
                 envVars, fs, work, work_tx, stat, stat_rx, walkVars, kop, cf,
                 aggVars, emitted, executed, sizes, failed, faults>>


\* --------------------------------------------------------------- copy_tree
\* lines 220-231: one statistic received and accumulated
AggRecv ==
  /\ mode = "tree" /\ apc = "recv"
  /\ stat # <<>> /\ Dequeue(stat).op.ok
  /\ stat' = Dequeue(stat).rest
  /\ total' = IF Dequeue(stat).op.stat = "Size" THEN total + Dequeue(stat).op.n ELSE total
  /\ copied' = IF Dequeue(stat).op.stat = "Copied" THEN copied + Dequeue(stat).op.n
               ELSE copied
  /\ UNCHANGED <<statlog, returns,
                 envVars, fs, work, work_rx, work_tx, stat_rx, stat_tx, walkVars,
                 workerVars, apc, ares, emitted, executed, sizes, failed, faults>>

\* line 221: `stat?` on a terminal error returns it at once; the receiver and
\* the two JoinHandles drop, no thread is joined
AggError ==
  /\ mode = "tree" /\ apc = "recv"
  /\ stat # <<>> /\ ~Dequeue(stat).op.ok
  /\ stat' = Dequeue(stat).rest
  /\ ares' = Dequeue(stat).op.err
  /\ apc' = "done"
  /\ stat_rx' = FALSE
  /\ UNCHANGED <<statlog, returns,
                 envVars, fs, work, work_rx, work_tx, stat_tx, walkVars,
                 workerVars, copied, total, emitted, executed, sizes, failed, faults>>

\* an aggregator that stops at the first moment the channel is empty
AggFinishEarly ==
  /\ mode = "tree" /\ apc = "recv"
  /\ stat = <<>>
  /\ ares' = OkRes
  /\ apc' = "done"
  /\ stat_rx' = FALSE
  /\ UNCHANGED <<envVars, fs, work, work_rx, work_tx, stat, stat_tx, walkVars,
                 workerVars, copied, total, emitted, executed, sizes, failed,
                 statlog, returns, faults>>

\* lines 232-237: the channel is empty and every sender is gone: Ok(())
AggFinish ==
  /\ mode = "tree" /\ apc = "recv"
  /\ stat = <<>> /\ stat_tx = {}
  /\ ares' = OkRes
  /\ apc' = "done"
  /\ stat_rx' = FALSE
  /\ UNCHANGED <<statlog, returns,
                 envVars, fs, work, work_rx, work_tx, stat, stat_tx, walkVars,
                 workerVars, copied, total, emitted, executed, sizes, failed, faults>>

Next ==
  \/ WalkStart \/ WalkNext \/ WalkSend \/ WalkUpdate \/ WalkReturn
  \/ WorkerRecv \/ WorkerLink \/ WorkerMkdir \/ WorkerMkdirStat \/ WorkerReturn
  \/ CopyFileOpen \/ CopyFileLoop \/ CopyFileUpdate
  \/ AggRecv \/ AggError \/ AggFinish

Spec == Init /\ [][Next]_vars

\* lines 208, 217: each stage is an OS thread of its own and copy_tree runs on
\* the caller's; a thread that can take a step eventually takes one
WalkerStep == WalkStart \/ WalkNext \/ WalkSend \/ WalkUpdate \/ WalkReturn

WorkerStep ==
  \/ WorkerRecv \/ WorkerLink \/ WorkerMkdir \/ WorkerMkdirStat \/ WorkerReturn
  \/ CopyFileOpen \/ CopyFileLoop \/ CopyFileUpdate

AggStep == AggRecv \/ AggError \/ AggFinish

\* the directory copies of sources that hold at most two entries below the
\* root, walked in name order with no ignore files
InitLive ==
  /\ Init
  /\ order = Names /\ ~opts.gitignore
  /\ Cardinality({p \in Paths : IsPrefix(SrcRoot, p) /\ fs[p].kind # "None"}) <= 3

SpecLive ==
  /\ InitLive /\ [][Next]_vars
  /\ WF_vars(WalkerStep) /\ WF_vars(WorkerStep) /\ WF_vars(AggStep)

\* -------------------------------------------------------- copy_single_file
\* lines 242-247
SingleDest(f) ==
  IF IsDir(f, Dest) THEN Dest \o <<SrcRoot[Len(SrcRoot)]>> ELSE Dest

\* line 249
SingleClobber(f, dest, o) == IsFile(f, dest) /\ o.noclobber

\* the source is a regular file of 0..MaxLen bytes; the destination is missing,
\* a regular file, a special file, or a directory in which the source's name is
\* missing, a regular file, a directory or a special file
FileStates ==
  { [p \in Paths |->
       IF p = SrcRoot THEN FileNode([i \in 1..n |-> i], 5)
       ELSE IF p = Dest THEN SrcNode(kd, <<>>)
       ELSE IF p = Dest \o SrcRoot THEN SrcNode(ks, <<>>)
       ELSE Absent] :
    <<n, kd, ks>> \in
      { t \in (0..MaxLen) \X {"None", "File", "Other", "Dir"}
              \X {"None", "File", "Other", "Dir"} :
          t[3] # "None" => t[2] = "Dir" } }

OldContent(f) ==
  [p \in Paths |->
     IF IsPrefix(Dest, p) /\ f[p].kind = "File" THEN [f[p] EXCEPT !.content = <<9>>]
     ELSE f[p]]

InitFile ==
  /\ mode = "file"
  /\ opts \in [noclobber : BOOLEAN, noprogress : BOOLEAN, gitignore : {FALSE}]
  /\ \E f \in FileStates : fs = OldContent(f)
  /\ fs0 = fs
  /\ ignored = {} /\ order = Names
  /\ work = <<>> /\ work_rx = FALSE /\ work_tx = FALSE
  /\ stat = <<>> /\ stat_rx = FALSE /\ stat_tx = {}
  /\ wpc = "done" /\ widx = 0 /\ target_base = <<>> /\ wcur = NoEntry
  /\ wres = Running
  /\ kpc = "idle" /\ kop = NoOp /\ cf = NoCf /\ kres = Running
  /\ apc = "start" /\ copied = 0 /\ total = 0 /\ ares = Running
  /\ emitted = <<>> /\ executed = <<>> /\ sizes = <<>>
  /\ statlog = <<>> /\ returns = <<>>
  /\ failed = NoFail /\ faults = 0

\* lines 242-274: the destination, the no-clobber test, the sink
SingleStart ==
  /\ mode = "file" /\ apc = "start"
  /\ \/ /\ SingleClobber(fs, SingleDest(fs), opts)
        /\ ares' = io_err("AlreadyExists")
        /\ apc' = "done"
        /\ UNCHANGED <<kpc, cf, total, failed, faults>>
     \/ /\ ~SingleClobber(fs, SingleDest(fs), opts)
        /\ cf' = [NoCf EXCEPT !.from = SrcRoot, !.to = SingleDest(fs)]
        /\ total' = IF opts.noprogress THEN total ELSE Len(fs[SrcRoot].content)
        /\ kpc' = "cf_open"
        /\ apc' = "copy"
        /\ UNCHANGED <<ares, failed, faults>>
     \/ /\ ~SingleClobber(fs, SingleDest(fs), opts)
        /\ ~opts.noprogress
        /\ CanFault /\ faults' = faults + 1
        /\ failed' = [failed EXCEPT !.copy = TRUE]
        /\ ares' = io_err("Other")
        /\ apc' = "done"
        /\ UNCHANGED <<kpc, cf, total>>
  /\ UNCHANGED <<statlog, returns,
                 envVars, fs, work, work_rx, work_tx, stat, stat_rx, stat_tx,
                 walkVars, kop, kres, copied, emitted, executed, sizes>>

NextFile == SingleStart \/ CopyFileOpen \/ CopyFileLoop \/ CopyFileUpdate

SpecFile == InitFile /\ [][NextFile]_vars

\* ------------------------------------------------- both entry points at once
\* the caller runs copy_tree on a directory and copy_single_file on a file
InitAll == Init \/ InitFile

NextAll == Next \/ SingleStart

SpecAll == InitAll /\ [][NextAll]_vars


\* ================================================================== claims
Visited == {Walk[i] : i \in 1..widx}

IsWork(op) == op.op \in {"Copy", "Link", "CreateDir"}

Ends == {i \in 1..Len(emitted) : emitted[i] = End}

\* C1: whenever copy_tree returns an error, both background stages have already
\* run to completion.
C1_JoinBeforeError ==
  (mode = "tree" /\ apc = "done" /\ IsErr(ares)) => (wpc = "done" /\ kpc = "done")

\* C2: with no-clobber set, when the destination computed for a visited entry
\* existed before the call, copy_tree never returns success, no Copy, Link or
\* CreateDir for that path is ever enqueued or executed, and the path is left
\* as it was.
C2_NoClobberLeavesDestination ==
  \A rel \in Visited :
    LET target == Target(IF Exists(fs0, Dest) THEN Dest \o SrcRoot ELSE Dest, rel)
    IN (mode = "tree" /\ opts.noclobber /\ Exists(fs0, target)) =>
         /\ ares # OkRes
         /\ \A i \in 1..Len(emitted) : IsWork(emitted[i]) => emitted[i].to # target
         /\ \A i \in 1..Len(executed) : executed[i].to # target
         /\ fs[target] = fs0[target]

C2_Witness ==
  /\ mode = "tree" /\ opts.noclobber /\ widx = 1
  /\ Exists(fs0, Dest \o SrcRoot)
  /\ apc = "done" /\ ares = XcpErr("DestinationExists", Dest \o SrcRoot)
  /\ emitted = <<End>>

\* C3: in copy_single_file with no-clobber set, when the computed destination
\* already exists the call fails with a destination-exists error before the
\* destination is opened, created or truncated, and its content is unchanged.
C3_SingleFileNoClobber ==
  (mode = "file" /\ opts.noclobber /\ Exists(fs0, SingleDest(fs0))) =>
     /\ kpc \notin {"cf_loop", "cf_upd"}
     /\ fs = fs0
     /\ apc = "done" => (ares.kind = "AlreadyExists" \/ ares.type = "DestinationExists")

\* C4: the Executor runs Operations in exactly the order the traversal emitted
\* them: what it has executed is a prefix of what was emitted, and no Operation
\* is executed twice.
C4_ExecutedInEmissionOrder ==
  mode = "tree" =>
    /\ Len(executed) <= Len(emitted)
    /\ \A i \in 1..Len(executed) : executed[i] = emitted[i]
    /\ \A i, j \in 1..Len(executed) : executed[i] = executed[j] => i = j

C4_Witness ==
  /\ mode = "tree" /\ kpc = "done" /\ Len(executed) >= 3
  /\ executed = SubSeq(emitted, 1, Len(executed))

\* C5: an I/O failure in a background stage (directory creation in the Executor,
\* metadata, read-link or the directory walk in the traversal) is fatal:
\* copy_tree never returns success in a run in which one occurred.
C5_StageFailureIsFatal ==
  (mode = "tree" /\ (failed.mkdir \/ failed.walk)) => ares # OkRes

\* C6: after a directory copy that returns success, every entry the traversal
\* covers is present under the destination base with its own kind, and every
\* path the run created is the image of such an entry.
C6_TreeReproduced ==
  (mode = "tree" /\ apc = "done" /\ ares = OkRes) =>
    LET base == IF Exists(fs0, Dest) THEN Dest \o SrcRoot ELSE Dest
        image == {Target(base, Walk[i]) : i \in 1..Len(Walk)}
    IN /\ \A i \in 1..Len(Walk) :
            KindAt(fs, Target(base, Walk[i])) = fs[SrcRoot \o Walk[i]].kind
       /\ \A p \in Paths : (IsPrefix(Dest, p) /\ fs[p] # fs0[p]) => p \in image

\* C7: the destination base is decided once, from whether the destination
\* existed when the traversal started, and every Operation emitted has the
\* destination base joined with the relative path of a visited entry as its
\* destination, although the Executor creates the destination meanwhile.
C7_BaseDecidedOnce ==
  mode = "tree" =>
    LET base == IF Exists(fs0, Dest) THEN Dest \o SrcRoot ELSE Dest
        images == {base \o rel : rel \in Visited}
    IN \A i \in 1..Len(emitted) : IsWork(emitted[i]) => emitted[i].to \in images

C7_Witness ==
  /\ mode = "tree" /\ ~Exists(fs0, Dest) /\ IsDir(fs, Dest)
  /\ wpc \in {"file_size", "dir_send", "link_send"}
  /\ wcur.target = Dest \o <<"a">>
  /\ emitted = <<CreateDir(Dest)>>

\* C8: a no-clobber violation is reported to the caller as a destination-exists
\* error that carries the offending path and is not a generic I/O failure, in
\* the directory pipeline and in the single-file path alike.
C8_DestinationExistsIdentity ==
  LET dest == IF mode = "file" THEN SingleDest(fs0)
              ELSE IF Exists(fs0, Dest) THEN Dest \o SrcRoot ELSE Dest
  IN (opts.noclobber /\ IsFile(fs0, dest) /\ apc = "done") =>
       (ares.type = "DestinationExists" /\ ares.path = dest)

UnknownReported ==
  \E i \in 1..Len(sizes) : sizes[i].err.type = "UnknownFiletype"

\* C9: once the traversal has reported an unknown file type, it emits no further
\* Operation on the Work Queue and no further statistic on the Stats Channel.
C9_NoTraversalAfterUnknown ==
  [][UnknownReported => (emitted' = emitted /\ sizes' = sizes)]_vars

\* C10: End is placed on the Work Queue at most once, nothing is placed after
\* it, and a traversal that reached an exit point has placed exactly one.
C10_ExactlyOneEnd ==
  mode = "tree" =>
    /\ \A i \in Ends : i = Len(emitted)
    /\ (wres = OkRes \/ wres.type = "EarlyShutdown") => Cardinality(Ends) = 1


RECURSIVE SumSeq(_, _)
\* the sum of the first m numbers of a sequence
SumSeq(q, m) == IF m = 0 THEN 0 ELSE SumSeq(q, m - 1) + q[m]

\* the sum of the deltas of the first m entries of the log that carry statistic st
SumLog(m, st) ==
  SumSeq([i \in 1..Len(statlog) |-> IF statlog[i].stat = st THEN statlog[i].n ELSE 0], m)

\* C11: copy_tree returns success only once both stages have exited and the
\* Stats Channel is closed and drained: the two running totals then hold every
\* statistic the stages sent.
C11_SuccessAfterBothStages ==
  (mode = "tree" /\ apc = "done" /\ ares = OkRes) =>
     /\ wpc = "done" /\ kpc = "done"
     /\ stat_tx = {} /\ stat = <<>>
     /\ total = SumLog(Len(statlog), "Size")
     /\ copied = SumLog(Len(statlog), "Copied")

C11_Witness ==
  /\ mode = "tree" /\ apc = "done" /\ ares = OkRes
  /\ wres = OkRes /\ kres = OkRes
  /\ total >= 3 /\ copied >= 3


\* C12: whenever copy_file has returned Ok for a regular destination, in the
\* Executor or in the single-file path, the destination holds the bytes and the
\* permission bits of the source; while the transfer loop runs the destination
\* still has the permission bits it was opened with.
C12_CopyIsFaithful ==
  /\ \A i \in 1..Len(returns) :
       (returns[i].res = OkRes /\ IsFile(fs, returns[i].to)) =>
          /\ fs[returns[i].to].content = fs[returns[i].from].content
          /\ fs[returns[i].to].perm = fs[returns[i].from].perm
  /\ (kpc \in {"cf_loop", "cf_upd"} /\ IsFile(fs, cf.to)) =>
       fs[cf.to].perm = (IF IsFile(fs0, cf.to) THEN fs0[cf.to].perm ELSE 6)

C12_Witness ==
  \E i \in 1..Len(returns) :
    /\ mode = "tree" /\ kpc = "done"
    /\ returns[i].res = OkRes
    /\ IsFile(fs0, returns[i].to)
    /\ fs[returns[i].to] = FileNode(<<1, 2>>, 5)


\* C13: with ignore-matching enabled, a path the matcher matches, or a path
\* below a matched directory, is never visited, is never the source or the
\* destination of an emitted Operation, and its image under the destination
\* base is left as it was before the call.
C13_IgnoredNeverCopied ==
  (mode = "tree" /\ opts.gitignore) =>
    LET base == IF Exists(fs0, Dest) THEN Dest \o SrcRoot ELSE Dest
    IN \A r \in Rels :
         (\E g \in ignored : IsPrefix(g, r)) =>
            /\ r \notin Visited
            /\ \A i \in 1..Len(emitted) :
                 /\ emitted[i].from # SrcRoot \o r
                 /\ IsWork(emitted[i]) => emitted[i].to # base \o r
            /\ fs[base \o r] = fs0[base \o r]

C13_Witness ==
  /\ mode = "tree" /\ opts.gitignore /\ ignored = {<<"a">>}
  /\ fs[SrcRoot \o <<"a">>].kind = "Dir"
  /\ fs[SrcRoot \o <<"a", "b">>].kind = "File"
  /\ apc = "done" /\ ares = OkRes /\ wres = OkRes /\ kres = OkRes
  /\ fs[Dest \o <<"c">>].kind = "File"
  /\ fs[Dest \o <<"a">>].kind = "None"


\* C14: the Executor returns a clean result only when it has dequeued End, and
\* once it has dequeued End it performs no further filesystem action.
C14_CleanExitOnlyAfterEnd ==
  mode = "tree" =>
    /\ kres = OkRes => kop = End
    /\ kop = End => kpc \in {"fin", "done"}

\* C15: a failure of a Copy or of a Link is swallowed by the Executor: at the
\* step where it fails the Executor stays alive, keeps its receiver, sends
\* nothing on the Stats Channel and turns to the next Operation.
C15_FailuresSwallowed ==
  [][(/\ mode = "tree"
      /\ \/ (returns' # returns /\ IsErr(returns'[Len(returns')].res))
         \/ (failed'.link /\ ~failed.link))
     => (kpc' = "recv" /\ kres' = Running /\ work_rx' /\ stat' = stat)]_vars

C15_Witness ==
  /\ mode = "tree" /\ apc = "done" /\ ares = OkRes /\ kres = OkRes
  /\ \E i \in 1..(Len(executed) - 1) :
       \/ /\ executed[i].op = "Copy" /\ returns # <<>>
          /\ returns[1].to = executed[i].to /\ IsErr(returns[1].res)
       \/ /\ executed[i].op = "Link" /\ failed.link
          /\ fs[executed[i].to].kind = "None"


\* the sum of the Copied deltas the sink was handed for the file copied to `to`
CopiedTo(to) ==
  SumSeq([i \in 1..Len(statlog) |->
            IF statlog[i] = Logged("Copied", statlog[i].n, to, "File")
            THEN statlog[i].n ELSE 0], Len(statlog))

\* C16: written never exceeds the length L; each call of the Copy Primitive
\* requested min(L - written, B) bytes and moved between 1 and that many; the
\* Copied deltas handed to the sink for the file add up to written after each
\* call, and to L exactly when copy_file returns Ok.
C16_ChunkedTransfer ==
  /\ cf.written <= cf.len
  /\ kpc = "cf_upd" =>
       /\ cf.req = Min(cf.len - (cf.written - cf.result), BatchSize(opts))
       /\ cf.result <= cf.req
       /\ CopiedTo(cf.to) = cf.written - cf.result
  /\ kpc = "cf_loop" => CopiedTo(cf.to) = cf.written
  /\ \A i \in 1..Len(returns) :
       returns[i].res = OkRes =>
         CopiedTo(returns[i].to) = Len(fs[returns[i].from].content)

C16_Witness ==
  /\ mode = "file" /\ ~opts.noprogress /\ apc = "done" /\ ares = OkRes
  /\ cf.len = 3 /\ cf.written = 3
  /\ Len(statlog) = 2 /\ statlog[1].n = 1 /\ statlog[2].n = 2


\* C17: a directory copy never deadlocks: under any interleaving copy_tree
\* eventually returns and Traversal and Executor eventually terminate, also
\* when a receiver was dropped early or Traversal aborted without End.
C17_AllTerminate == <>(apc = "done" /\ wpc = "done" /\ kpc = "done")

\* every thread is over although the Aggregator returned an error first and the
\* Executor stopped on an error with Operations still queued
C17_Witness ==
  /\ apc = "done" /\ wpc = "done" /\ kpc = "done"
  /\ IsErr(ares) /\ IsErr(kres) /\ ~work_rx /\ work # <<>>


\* C18: the CreateDir of a directory is executed before every Copy, Link or
\* CreateDir whose destination lies inside it: when the Executor takes an
\* Operation for a path below the target base, the CreateDir of that path's
\* parent is already among the executed Operations.
C18_ParentCreatedFirst ==
  mode = "tree" =>
    \A i \in 1..Len(executed) :
      executed[i].to # target_base =>
        \E j \in 1..(i - 1) : executed[j] = CreateDir(Parent(executed[i].to))

\* a file two levels down was copied after both directories above it
C18_Witness ==
  /\ mode = "tree" /\ Len(returns) > 0
  /\ \E i, j, k \in 1..Len(executed) :
       /\ i < j /\ j < k
       /\ executed[i] = CreateDir(target_base)
       /\ executed[j] = CreateDir(target_base \o <<"a">>)
       /\ executed[k].op = "Copy" /\ executed[k].to = target_base \o <<"a", "b">>


\* how many of the results handed to the sinks the Aggregator has taken off the
\* Stats Channel
Received == Len(statlog) - Len(stat)

\* the sum of the first m deltas of kind st that account for the regular file
\* copied to `to`
FileDelta(m, st, to) ==
  SumSeq([i \in 1..Len(statlog) |->
            IF statlog[i] = Logged(st, statlog[i].n, to, "File")
            THEN statlog[i].n ELSE 0], m)

\* C19 as stated: at every point of a directory copy the Aggregator's Copied
\* total is at most its Size total.
C19_CopiedWithinSize == mode = "tree" => copied <= total

\* C19, amended: the Aggregator's totals are the sums of the deltas it has
\* received, and for every regular file the Copied deltas received so far add up
\* to at most the Size delta received for that file, which was received before
\* the first of them. (The Copied delta of a directory can be received before
\* its Size delta.)
C19_FileCopiedWithinSize ==
  mode = "tree" =>
    /\ copied = SumLog(Received, "Copied")
    /\ total = SumLog(Received, "Size")
    /\ \A i \in 1..Received :
         (statlog[i].stat = "Copied" /\ statlog[i].kind = "File") =>
           /\ \E j \in 1..(i - 1) :
                /\ statlog[j].stat = "Size" /\ statlog[j].kind = "File"
                /\ statlog[j].to = statlog[i].to
           /\ FileDelta(i, "Copied", statlog[i].to) <= FileDelta(i, "Size", statlog[i].to)

\* the Aggregator has counted a file's Copied delta after its Size delta, and a
\* directory's Copied delta ahead of that directory's Size delta
C19_Witness ==
  /\ mode = "tree" /\ apc = "done" /\ ares = OkRes
  /\ \E i \in 1..Received : statlog[i].stat = "Copied" /\ statlog[i].kind = "File"
  /\ \E i, j \in 1..Received :
       /\ i < j
       /\ statlog[i].stat = "Copied" /\ statlog[i].kind = "Dir"
       /\ statlog[j].stat = "Size" /\ statlog[j].to = statlog[i].to


\* C20: with no-clobber set, the existence test of Traversal trips only on a
\* path that existed before the run and that the run has not touched, which is
\* the target of the root entry; so when a destination-exists abort is raised
\* no Operation other than End has been enqueued.
C20_ClobberOnlyOnOldPaths ==
  mode = "tree" =>
    /\ wpc \in {"clob_end", "clob_err", "clob_ret"} =>
         /\ opts.noclobber
         /\ Exists(fs0, wcur.target) /\ fs[wcur.target] = fs0[wcur.target]
         /\ widx = 1 /\ wcur.target = target_base
         /\ \A i \in 1..Len(emitted) : emitted[i] = End
    /\ \A i \in 1..Len(sizes) :
         sizes[i].err.type = "DestinationExists" =>
           /\ Exists(fs0, sizes[i].err.path)
           /\ fs[sizes[i].err.path] = fs0[sizes[i].err.path]
           /\ emitted = <<End>> /\ executed = <<>>

\* an aborted run in which the Executor ran to its end and had nothing to do
C20_Witness ==
  /\ mode = "tree" /\ opts.noclobber
  /\ wpc = "done" /\ wres = XcpErr("EarlyShutdown", NoPath)
  /\ kpc = "done" /\ kres = OkRes /\ executed = <<>> /\ fs = fs0
  /\ Len(sizes) = 1 /\ sizes[1].err = XcpErr("DestinationExists", target_base)

====
